---- MODULE Spec2Model ----
(***************************************************************************)
(* RightsPlace: registration, login, report submission with evidence       *)
(* uploads, and the administrative console (profiles, reports, cases).     *)
(*                                                                         *)
(* Text values are TLA+ strings as the code sees them after the form       *)
(* fields have stripped surrounding whitespace; "" is a blank / missing    *)
(* value.  Primary keys are positions in the sequences users, profiles,    *)
(* reports, evidences and cases; 0 is a null foreign key.                  *)
(***************************************************************************)
EXTENDS Integers, Sequences, FiniteSets, TLC

VARIABLES
    users,      \* auth accounts: [username, email, password]
    profiles,   \* UserProfile rows
    reports,    \* Report rows
    evidences,  \* Evidence rows
    cases,      \* Case rows
    session,    \* account logged in on the requesting client, 0 = nobody
    response,   \* the response to the last request
    upload,     \* the evidence files of the report request being submitted
    now,        \* the clock that auto_now timestamps read
    inflight    \* registration requests being processed, with their position

vars ==
    <<users, profiles, reports, evidences, cases, session, response, upload, now, inflight>>

----------------------------------------------------------------------------
(* Bounds *)

MaxUsers == 2
MaxAccounts == 1
MaxReports == 2
MaxFiles == 2
MaxTime == 3

----------------------------------------------------------------------------
(* Text helpers *)

StartsWith(s, p) == Len(s) >= Len(p) /\ SubSeq(s, 1, Len(p)) = p

LowerChar(c) ==
    CASE c = "X" -> "x"
      [] c = "A" -> "a"
      [] c = "B" -> "b"
      [] c = "C" -> "c"
      [] c = "O" -> "o"
      [] c = "M" -> "m"
      [] OTHER -> c

RECURSIVE Lower(_)
Lower(s) ==
    IF s = "" THEN ""
    ELSE LowerChar(SubSeq(s, 1, 1)) \o Lower(SubSeq(s, 2, Len(s)))

\* position of the last "@" of s at or before i, 0 when there is none
RECURSIVE RFindAt(_, _)
RFindAt(s, i) ==
    IF i = 0 THEN 0
    ELSE IF SubSeq(s, i, i) = "@" THEN i
    ELSE RFindAt(s, i - 1)

\* BaseUserManager.normalize_email, applied by create_user: the domain part
\* is lowercased, the local part is kept
normalize_email(email) ==
    LET k == RFindAt(email, Len(email))
    IN IF k = 0 THEN email
       ELSE SubSeq(email, 1, k) \o Lower(SubSeq(email, k + 1, Len(email)))

\* forms.EmailField: a local part, an "@" and a domain
IsEmail(s) ==
    LET k == RFindAt(s, Len(s))
    IN k > 1 /\ k < Len(s)

\* forms.BooleanField.to_python on a posted string
BooleanField_to_python(v) ==
    IF Lower(v) \in {"false", "0"} THEN FALSE ELSE v # ""

----------------------------------------------------------------------------
(* models.py *)

ROLE_CHOICES == {"lawyer", "ngo", "user"}
STATUS_CHOICES == {"pending", "in_progress", "resolved"}

UserProfile_clean_mutNoUserRule(p) ==
    IF p.role = "ngo" /\ p.organization_name = ""
        THEN {"NGOs must provide an organization name."}
    ELSE IF p.role = "ngo" /\ p.rc_number = ""
        THEN {"NGOs must provide an RC number."}
    ELSE IF p.role = "lawyer"
            /\ (p.enrolment_number = "" \/ p.email = "" \/ p.phone_number = "")
        THEN {"Lawyers must provide"}
    ELSE {}

UserProfile_clean_mutNoRcRule(p) ==
    IF p.role = "user" /\ p.is_verified
        THEN {"Only NGOs and Lawyers can be verified."}
    ELSE IF p.role = "ngo" /\ p.organization_name = ""
        THEN {"NGOs must provide an organization name."}
    ELSE IF p.role = "lawyer"
            /\ (p.enrolment_number = "" \/ p.email = "" \/ p.phone_number = "")
        THEN {"Lawyers must provide"}
    ELSE {}

\* UserProfile.clean: the set of validation errors it raises (at most one)
UserProfile_clean(p) ==
    IF p.role = "user" /\ p.is_verified
        THEN {"Only NGOs and Lawyers can be verified."}
    ELSE IF p.role = "ngo" /\ p.organization_name = ""
        THEN {"NGOs must provide an organization name."}
    ELSE IF p.role = "ngo" /\ p.rc_number = ""
        THEN {"NGOs must provide an RC number."}
    ELSE IF p.role = "lawyer"
            /\ (p.enrolment_number = "" \/ p.email = "" \/ p.phone_number = "")
        THEN {"Lawyers must provide"}
    ELSE {}

\* a UserProfile instance with the model's field defaults
NewProfile ==
    [user |-> 0, role |-> "user", organization_name |-> "", rc_number |-> "",
     phone_number |-> "", email |-> "", enrolment_number |-> "",
     wants_contact |-> FALSE, is_verified |-> FALSE]

----------------------------------------------------------------------------
(* forms.py: registration *)

REQUIRED == "This field is required."
NONFIELD == "__all__"

\* errors are pairs <<field, message>>
Required(post, fields) == {<<f, REQUIRED>> : f \in {g \in fields : post[g] = ""}}

\* CustomErrors.clean_username, run when the username field itself is clean
clean_username(post) ==
    IF post.username # "" /\ \E i \in 1..Len(users) : users[i].username = post.username
    THEN {<<"username", "This username is already taken.">>}
    ELSE {}

\* the email field's own validation, then CustomErrors.clean_email
clean_email(post) ==
    IF post.email = "" THEN {}
    ELSE IF ~IsEmail(post.email) THEN {<<"email", "Enter a valid email address.">>}
    ELSE IF \E i \in 1..Len(users) : users[i].email = post.email
        THEN {<<"email", "This email address is already registered.">>}
    ELSE {}

role_field(post) ==
    IF post.role = "" THEN {<<"role", REQUIRED>>}
    ELSE IF post.role \notin ROLE_CHOICES THEN {<<"role", "Select a valid choice.">>}
    ELSE {}

ErrFields(errs) == {e[1] : e \in errs}

\* construct_instance: a form field that failed validation is not copied
\* to the instance, which keeps the model default
Cleaned(post, errs, f) == IF f \in ErrFields(errs) THEN NewProfile[f] ELSE post[f]

\* ModelForm._post_clean: Model.clean() of the constructed instance
post_clean(inst) == {<<NONFIELD, m>> : m \in UserProfile_clean(inst)}

ReporterInstance(post, errs) ==
    [NewProfile EXCEPT
        !.role = Cleaned(post, errs, "role"),
        !.email = Cleaned(post, errs, "email"),
        !.phone_number = Cleaned(post, errs, "phone_number"),
        !.wants_contact = BooleanField_to_python(post.wants_contact)]

\* ReporterRegistrationForm.clean: the first missing contact field
ReporterRegistrationForm_clean(post, errs) ==
    LET missing(f) == f \in ErrFields(errs) \/ post[f] = ""
    IN IF ~BooleanField_to_python(post.wants_contact) THEN {}
       ELSE IF missing("first_name") THEN {<<NONFIELD, "First Name is required.">>}
       ELSE IF missing("last_name") THEN {<<NONFIELD, "Last Name is required.">>}
       ELSE IF missing("email") THEN {<<NONFIELD, "Email is required.">>}
       ELSE IF missing("phone_number") THEN {<<NONFIELD, "Phone Number is required.">>}
       ELSE {}

ReporterRegistrationForm_errors(post) ==
    LET fe == Required(post, {"username", "password", "first_name", "last_name", "email"})
              \cup clean_username(post) \cup clean_email(post) \cup role_field(post)
        ce == ReporterRegistrationForm_clean(post, fe)
    IN fe \cup ce \cup post_clean(ReporterInstance(post, fe))

LawyerInstance(post, errs) ==
    [NewProfile EXCEPT
        !.role = Cleaned(post, errs, "role"),
        !.email = Cleaned(post, errs, "email"),
        !.phone_number = Cleaned(post, errs, "phone_number"),
        !.enrolment_number = Cleaned(post, errs, "enrolment_number"),
        !.is_verified = BooleanField_to_python(post.is_verified)]

LawyerRegistrationForm_errors(post) ==
    LET fe == Required(post, {"username", "password", "first_name", "last_name",
                              "email", "phone_number", "enrolment_number"})
              \cup clean_username(post) \cup clean_email(post) \cup role_field(post)
    IN fe \cup post_clean(LawyerInstance(post, fe))

NGOInstance(post, errs) ==
    [NewProfile EXCEPT
        !.role = Cleaned(post, errs, "role"),
        !.organization_name = Cleaned(post, errs, "organization_name"),
        !.rc_number = Cleaned(post, errs, "rc_number"),
        !.email = Cleaned(post, errs, "email"),
        !.phone_number = Cleaned(post, errs, "phone_number"),
        !.is_verified = BooleanField_to_python(post.is_verified)]

NGORegistrationForm_errors(post) ==
    LET fe == Required(post, {"username", "password", "first_name", "last_name",
                              "email", "phone_number", "organization_name", "rc_number"})
              \cup clean_username(post) \cup clean_email(post) \cup role_field(post)
    IN fe \cup post_clean(NGOInstance(post, fe))

\* User.objects.create_user: the row it inserts
create_user(post) ==
    [username |-> post.username, email |-> normalize_email(post.email),
     password |-> post.password]

ReporterRegistrationForm_save_mutRole(post, uid) ==
    [ReporterInstance(post, {}) EXCEPT !.user = uid, !.role = "lawyer",
        !.email = post.email, !.phone_number = post.phone_number]

\* <Form>.save: the profile row, linked to the new account
ReporterRegistrationForm_save(post, uid) ==
    [ReporterInstance(post, {}) EXCEPT !.user = uid, !.role = "user",
        !.email = post.email, !.phone_number = post.phone_number]

LawyerRegistrationForm_save(post, uid) ==
    [LawyerInstance(post, {}) EXCEPT !.user = uid, !.role = "lawyer"]

NGORegistrationForm_save(post, uid) ==
    [NGOInstance(post, {}) EXCEPT !.user = uid, !.role = "ngo"]

is_valid_mutAlways(errs) == TRUE

\* Form.is_valid
is_valid(errs) == errs = {}

----------------------------------------------------------------------------
(* views.py: register, login_view, logout_view *)

\* an HTML page, a redirect or a plain HTTP response; context is the set of
\* records a rendered page lists
Resp(view, status, errors, obj) ==
    [view |-> view, status |-> status, success |-> "", errors |-> errors, obj |-> obj,
     context |-> {}]

\* a JsonResponse {"success": ..., "errors": ...}
JsonResp(view, status, success, errors, obj) ==
    [view |-> view, status |-> status, success |-> success, errors |-> errors, obj |-> obj,
     context |-> {}]

\* render(request, template, context) of a page that lists records
Page(view, context) == [Resp(view, 200, {}, 0) EXCEPT !.context = context]

\* the form the register view binds for the posted role, validated
register_errors(post) ==
    CASE post.role = "user" -> ReporterRegistrationForm_errors(post)
      [] post.role = "lawyer" -> LawyerRegistrationForm_errors(post)
      [] post.role = "ngo" -> NGORegistrationForm_errors(post)
      [] OTHER -> {<<NONFIELD, "Invalid form submission.">>}

register_save(post, uid) ==
    CASE post.role = "user" -> ReporterRegistrationForm_save(post, uid)
      [] post.role = "lawyer" -> LawyerRegistrationForm_save(post, uid)
      [] OTHER -> NGORegistrationForm_save(post, uid)

\* POST /register/
register(post) ==
    LET errs == register_errors(post)
        uid == Len(users) + 1
    IN IF post.role \in ROLE_CHOICES /\ is_valid(errs)
       THEN /\ users' = Append(users, create_user(post))
            /\ profiles' = Append(profiles, register_save(post, uid))
            /\ session' = uid
            /\ response' = Resp("register", 302, {}, uid)
            /\ UNCHANGED <<reports, evidences, cases, upload, now, inflight>>
       ELSE /\ response' = Resp("register", 200, errs, 0)
            /\ UNCHANGED <<users, profiles, reports, evidences, cases, session, upload, now, inflight>>

\* django.contrib.auth.authenticate with the model backend: the account with
\* that username whose password checks, 0 for None
authenticate(username, password) ==
    LET hit == {i \in 1..Len(users) :
                    users[i].username = username /\ users[i].password = password}
    IN IF hit = {} THEN 0 ELSE CHOOSE i \in hit : TRUE

\* LoginForm.clean: kind is "ok" (cleaned["user"] = user), "invalid" (form
\* errors) or "error" (an exception leaves the view)
LoginForm_clean(identifier, password) ==
    LET fe == Required([identifier |-> identifier, password |-> password],
                       {"identifier", "password"})
        byname == authenticate(identifier, password)
        bymail == {i \in 1..Len(users) : users[i].email = identifier}
        invalid == [kind |-> "invalid", user |-> 0,
                    errors |-> {<<NONFIELD, "Invalid username/email or password.">>}]
    IN IF fe # {} THEN [kind |-> "invalid", user |-> 0, errors |-> fe]
       ELSE IF byname # 0 THEN [kind |-> "ok", user |-> byname, errors |-> {}]
       ELSE IF bymail = {} THEN invalid
       ELSE IF Cardinality(bymail) > 1
            THEN [kind |-> "error", user |-> 0,
                  errors |-> {<<NONFIELD, "MultipleObjectsReturned">>}]
       ELSE LET u == authenticate(users[CHOOSE i \in bymail : TRUE].username, password)
            IN IF u # 0 THEN [kind |-> "ok", user |-> u, errors |-> {}] ELSE invalid

\* POST /login/
login_view(identifier, password) ==
    LET r == LoginForm_clean(identifier, password)
    IN /\ session' = IF r.kind = "ok" THEN r.user ELSE session
       /\ response' = Resp("login", CASE r.kind = "ok" -> 302
                                      [] r.kind = "invalid" -> 200
                                      [] OTHER -> 500,
                            r.errors, r.user)
       /\ UNCHANGED <<users, profiles, reports, evidences, cases, upload, now, inflight>>

\* /logout/
logout_view ==
    /\ session' = 0
    /\ response' = Resp("logout", 302, {}, 0)
    /\ UNCHANGED <<users, profiles, reports, evidences, cases, upload, now, inflight>>

----------------------------------------------------------------------------
(* forms.py: report forms.  An uploaded file is [size, content_type]. *)

CATEGORY_CHOICES == {"HR", "GV", "DV", "WL", "OT"}

MAX_NUM == 20
AUTH_MAX_FILE_SIZE == 100 * 1024 * 1024
ANON_MAX_FILE_SIZE_mut25 == 25 * 1024 * 1024
ANON_MAX_FILE_SIZE == 100 * 1024 * 1024

\* MultiFileField(min_num=0, max_num, max_file_size, required=False): the
\* field's own validation of the list of files
MultiFileField_validate(files, max_num, max_file_size) ==
    IF Len(files) = 0 THEN {}
    ELSE IF Len(files) > max_num THEN {<<"evidence_files", "max_num">>}
    ELSE IF \E i \in 1..Len(files) : files[i].size > max_file_size
        THEN {<<"evidence_files", "file_size">>}
    ELSE {}

AuthenticatedReportForm_allowed(ctype) ==
    \/ \E pre \in {"image/", "video/", "audio/"} : StartsWith(ctype, pre)
    \/ ctype \in {"application/pdf",
                  "application/msword",
                  "application/vnd.openxmlformats-officedocument.wordprocessingml.document",
                  "application/vnd.openxmlformats-officedocument.spreadsheetml.sheet",
                  "application/vnd.ms-excel",
                  "text/plain"}

AuthenticatedReportForm_file_error_mutGeq(f) ==
    IF f.size >= 100 * 1024 * 1024 THEN {<<"evidence_files", "exceeds 100 MB.">>}
    ELSE IF ~AuthenticatedReportForm_allowed(f.content_type)
        THEN {<<"evidence_files", "has unsupported type">>}
    ELSE {}

\* AuthenticatedReportForm.clean_evidence_files: one loop iteration
AuthenticatedReportForm_file_error(f) ==
    IF f.size > 100 * 1024 * 1024 THEN {<<"evidence_files", "exceeds 100 MB.">>}
    ELSE IF ~AuthenticatedReportForm_allowed(f.content_type)
        THEN {<<"evidence_files", "has unsupported type">>}
    ELSE {}

\* AuthenticatedReportForm.clean_evidence_files: the errors it raises
AuthenticatedReportForm_clean_evidence_files(files) ==
    UNION {AuthenticatedReportForm_file_error(files[i]) : i \in 1..Len(files)}

AnonymousReportForm_allowed_mutNoText(ctype) ==
    \/ \E pre \in {"image/", "video/", "audio/"} : StartsWith(ctype, pre)
    \/ ctype \in {"application/pdf",
                  "application/msword",
                  "application/vnd.openxmlformats-officedocument.wordprocessingml.document",
                  "application/vnd.openxmlformats-officedocument.spreadsheetml.sheet",
                  "application/vnd.ms-excel"}

AnonymousReportForm_allowed(ctype) ==
    \/ \E pre \in {"image/", "video/", "audio/"} : StartsWith(ctype, pre)
    \/ ctype \in {"application/pdf",
                  "application/msword",
                  "application/vnd.openxmlformats-officedocument.wordprocessingml.document",
                  "application/vnd.openxmlformats-officedocument.spreadsheetml.sheet",
                  "application/vnd.ms-excel",
                  "text/plain"}

\* AnonymousReportForm.clean_evidence_files: one loop iteration
AnonymousReportForm_file_error(f) ==
    IF f.size > 100 * 1024 * 1024 THEN {<<"evidence_files", "exceeds 100 MB.">>}
    ELSE IF ~AnonymousReportForm_allowed(f.content_type)
        THEN {<<"evidence_files", "has unsupported type">>}
    ELSE {}

AnonymousReportForm_clean_evidence_files(files) ==
    UNION {AnonymousReportForm_file_error(files[i]) : i \in 1..Len(files)}

\* the model fields of both report forms: title, description and category
\* are required, category is one of the choices
ReportFields_errors(post) ==
    Required(post, {"title", "description", "category"})
    \cup (IF post.category # "" /\ post.category \notin CATEGORY_CHOICES
          THEN {<<"category", "Select a valid choice.">>} ELSE {})

\* clean_evidence_files runs only when the field's own validation passed
AuthenticatedReportForm_errors(post, files) ==
    LET mf == MultiFileField_validate(files, MAX_NUM, AUTH_MAX_FILE_SIZE)
    IN ReportFields_errors(post)
       \cup (IF mf # {} THEN mf ELSE AuthenticatedReportForm_clean_evidence_files(files))

AnonymousReportForm_errors(post, files) ==
    LET mf == MultiFileField_validate(files, MAX_NUM, ANON_MAX_FILE_SIZE)
    IN ReportFields_errors(post)
       \cup (IF mf # {} THEN mf ELSE AnonymousReportForm_clean_evidence_files(files))

NewReport_mutPostedStatus(post, reporter, t) ==
    [reporter |-> reporter, title |-> post.title, description |-> post.description,
     category |-> post.category, incident_location |-> post.incident_location,
     status |-> post.status, created_at |-> t, updated_at |-> t]

\* the Report row a report form saves: status keeps the model default and
\* both timestamps are set from the clock
NewReport(post, reporter, t) ==
    [reporter |-> reporter, title |-> post.title, description |-> post.description,
     category |-> post.category, incident_location |-> post.incident_location,
     status |-> "pending", created_at |-> t, updated_at |-> t]

NewEvidences_mutFirstReport(rid, files) ==
    [i \in 1..Len(files) |-> [report |-> 1, file |-> files[i], caption |-> ""]]

\* Evidence.objects.create(report=report, file=f) for each cleaned file
NewEvidences(rid, files) == [i \in 1..Len(files) |-> [report |-> rid, file |-> files[i], caption |-> ""]]

\* AuthenticatedReportForm.save / AnonymousReportForm.save
ReportForm_save(post, files, reporter) ==
    /\ reports' = Append(reports, NewReport(post, reporter, now + 1))
    /\ evidences' = evidences \o NewEvidences(Len(reports) + 1, files)
    /\ now' = now + 1

----------------------------------------------------------------------------
(* views.py: anonymous_report, report_create *)

FormErrorsResp(view, errs) == JsonResp(view, 400, "false", errs, 0)

\* POST /report/anonymous/
anonymous_report(post, files) ==
    LET errs == AnonymousReportForm_errors(post, files)
    IN /\ upload' = files
       /\ IF is_valid(errs)
          THEN /\ ReportForm_save(post, files, 0)
               /\ response' = JsonResp("report_anonymous", 200, "true", {}, Len(reports) + 1)
          ELSE /\ response' = FormErrorsResp("report_anonymous", errs)
               /\ UNCHANGED <<reports, evidences, now>>
       /\ UNCHANGED <<users, profiles, cases, session, inflight>>

\* request.user.userprofile: the profiles of an account
userprofile(uid) == {i \in 1..Len(profiles) : profiles[i].user = uid}

\* POST /report/create/
report_create(post, files) ==
    LET errs == AuthenticatedReportForm_errors(post, files)
        own == userprofile(session)
        pid == CHOOSE i \in own : TRUE
    IN /\ upload' = files
       /\ IF session = 0
          THEN \* login_required
               /\ response' = Resp("report_create", 302, {}, 0)
               /\ UNCHANGED <<reports, evidences, now>>
          ELSE IF own = {}
          THEN \* RelatedObjectDoesNotExist leaves the view
               /\ response' = Resp("report_create", 500, {}, 0)
               /\ UNCHANGED <<reports, evidences, now>>
          ELSE IF profiles[pid].role # "user"
          THEN /\ response' = JsonResp("report_create", 403, "false",
                      {<<"role", "Only regular users can submit reports.">>}, 0)
               /\ UNCHANGED <<reports, evidences, now>>
          ELSE IF is_valid(errs)
          THEN /\ ReportForm_save(post, files, pid)
               /\ response' = JsonResp("report_create", 200, "true", {}, Len(reports) + 1)
          ELSE /\ response' = FormErrorsResp("report_create", errs)
               /\ UNCHANGED <<reports, evidences, now>>
       /\ UNCHANGED <<users, profiles, cases, session, inflight>>

----------------------------------------------------------------------------
(* views.py: assigned_cases_dashboard, reporter_dashboard *)

assigned_cases_mutAll(pid) == 1..Len(cases)

\* Case.objects.filter(assigned_lawyer=profile) for a lawyer,
\* Case.objects.filter(assigned_ngo=profile) otherwise
assigned_cases(pid) ==
    IF profiles[pid].role = "lawyer"
    THEN {c \in 1..Len(cases) : cases[c].assigned_lawyer = pid}
    ELSE {c \in 1..Len(cases) : cases[c].assigned_ngo = pid}

\* Report.objects.filter(reporter=profile)
own_reports(pid) == {r \in 1..Len(reports) : reports[r].reporter = pid}

\* GET /cases/assigned/
assigned_cases_dashboard ==
    LET own == userprofile(session)
        pid == CHOOSE i \in own : TRUE
    IN /\ response' =
            IF session = 0 THEN Resp("assigned_cases_dashboard", 302, {}, 0)
            ELSE IF own = {} THEN Resp("assigned_cases_dashboard", 500, {}, 0)
            ELSE IF profiles[pid].role \notin {"lawyer", "ngo"}
                THEN Resp("assigned_cases_dashboard", 403, {}, 0)
            ELSE Page("assigned_cases_dashboard", assigned_cases(pid))
       /\ UNCHANGED <<users, profiles, reports, evidences, cases, session, upload, now, inflight>>

reporter_dashboard_mutNoRole ==
    LET own == userprofile(session)
        pid == CHOOSE i \in own : TRUE
    IN /\ response' =
            IF session = 0 THEN Resp("reporter_dashboard", 302, {}, 0)
            ELSE IF own = {} THEN Resp("reporter_dashboard", 500, {}, 0)
            ELSE Page("reporter_dashboard", own_reports(pid))
       /\ UNCHANGED <<users, profiles, reports, evidences, cases, session, upload, now, inflight>>

\* GET /my-reports/
reporter_dashboard ==
    LET own == userprofile(session)
        pid == CHOOSE i \in own : TRUE
    IN /\ response' =
            IF session = 0 THEN Resp("reporter_dashboard", 302, {}, 0)
            ELSE IF own = {} THEN Resp("reporter_dashboard", 500, {}, 0)
            ELSE IF profiles[pid].role # "user"
                THEN Resp("reporter_dashboard", 403, {}, 0)
            ELSE Page("reporter_dashboard", own_reports(pid))
       /\ UNCHANGED <<users, profiles, reports, evidences, cases, session, upload, now, inflight>>

----------------------------------------------------------------------------
(* admin.py: UserProfileAdmin *)

\* UserProfileAdmin.get_readonly_fields for the change form of obj
get_readonly_fields(obj) == IF obj.role = "user" THEN {"is_verified"} ELSE {}

\* the change form: the submitted values replace the editable fields, the
\* instance is validated by UserProfile.clean and saved when it is clean
UserProfileAdmin_change(pid, form) ==
    LET obj == profiles[pid]
        inst == [obj EXCEPT
                    !.role = form.role,
                    !.organization_name = form.organization_name,
                    !.rc_number = form.rc_number,
                    !.phone_number = form.phone_number,
                    !.email = form.email,
                    !.enrolment_number = form.enrolment_number,
                    !.is_verified = IF "is_verified" \in get_readonly_fields(obj)
                                    THEN obj.is_verified ELSE form.is_verified]
        errs == post_clean(inst)
    IN /\ profiles' = IF is_valid(errs) THEN [profiles EXCEPT ![pid] = inst] ELSE profiles
       /\ response' = Resp("admin_userprofile_change",
                            IF is_valid(errs) THEN 302 ELSE 200, errs, pid)
       /\ UNCHANGED <<users, reports, evidences, cases, session, upload, now, inflight>>

\* the change list with list_editable = ('is_verified',): the row's form
\* has the single field is_verified; Model.clean() still runs
UserProfileAdmin_changelist(pid, verified) ==
    LET inst == [profiles[pid] EXCEPT !.is_verified = verified]
        errs == post_clean(inst)
    IN /\ profiles' = IF is_valid(errs) THEN [profiles EXCEPT ![pid] = inst] ELSE profiles
       /\ response' = Resp("admin_userprofile_changelist",
                            IF is_valid(errs) THEN 302 ELSE 200, errs, pid)
       /\ UNCHANGED <<users, reports, evidences, cases, session, upload, now, inflight>>

----------------------------------------------------------------------------
(* admin.py: ReportAdmin, CaseAdmin *)

\* the Report change form: the administrator sets the status; saving
\* refreshes updated_at (auto_now)
ReportAdmin_change(rid, status) ==
    /\ reports' = [reports EXCEPT ![rid].status = status, ![rid].updated_at = now + 1]
    /\ now' = now + 1
    /\ response' = Resp("admin_report_change", 302, {}, rid)
    /\ UNCHANGED <<users, profiles, evidences, cases, session, upload, inflight>>

formfield_for_foreignkey_mutNoVerified(name) ==
    CASE name = "assigned_lawyer" -> {i \in 1..Len(profiles) : profiles[i].role = "lawyer"}
      [] name = "assigned_ngo" -> {i \in 1..Len(profiles) : profiles[i].role = "ngo"}
      [] OTHER -> {}

\* CaseAdmin.formfield_for_foreignkey: the queryset of selectable profiles
formfield_for_foreignkey(name) ==
    CASE name = "assigned_lawyer" ->
            {i \in 1..Len(profiles) : profiles[i].role = "lawyer" /\ profiles[i].is_verified}
      [] name = "assigned_ngo" ->
            {i \in 1..Len(profiles) : profiles[i].role = "ngo" /\ profiles[i].is_verified}
      [] OTHER -> {}

CaseForm_errors_mutNoUnique(cid, form) ==
    (IF form.report \notin 1..Len(reports)
        THEN {<<"report", REQUIRED>>}
     ELSE {})
    \cup (IF form.assigned_lawyer # 0
             /\ form.assigned_lawyer \notin formfield_for_foreignkey("assigned_lawyer")
          THEN {<<"assigned_lawyer", "Select a valid choice.">>} ELSE {})
    \cup (IF form.assigned_ngo # 0
             /\ form.assigned_ngo \notin formfield_for_foreignkey("assigned_ngo")
          THEN {<<"assigned_ngo", "Select a valid choice.">>} ELSE {})

\* validation of the Case form; cid = 0 on the add form.  A foreign key
\* field accepts a blank or a member of its queryset, report is required
\* and unique among the other cases (OneToOneField)
CaseForm_errors(cid, form) ==
    (IF form.report \notin 1..Len(reports)
        THEN {<<"report", REQUIRED>>}
     ELSE IF \E c \in 1..Len(cases) : c # cid /\ cases[c].report = form.report
        THEN {<<"report", "Case with this Report already exists.">>}
     ELSE {})
    \cup (IF form.assigned_lawyer # 0
             /\ form.assigned_lawyer \notin formfield_for_foreignkey("assigned_lawyer")
          THEN {<<"assigned_lawyer", "Select a valid choice.">>} ELSE {})
    \cup (IF form.assigned_ngo # 0
             /\ form.assigned_ngo \notin formfield_for_foreignkey("assigned_ngo")
          THEN {<<"assigned_ngo", "Select a valid choice.">>} ELSE {})

save_model_transitions_mutAlways(status) == TRUE

save_model_transitions_mutNever(status) == FALSE

\* CaseAdmin.save_model: the test that guards the status transition
save_model_transitions(status) == status = "pending"

\* CaseAdmin.save_model after a valid add (cid = 0) or change form: the
\* case is saved, then a pending report is set to in_progress and saved,
\* which refreshes its updated_at (auto_now)
CaseAdmin_save_model(cid, form) ==
    LET rid == form.report
        obj == [report |-> rid, assigned_lawyer |-> form.assigned_lawyer,
                assigned_ngo |-> form.assigned_ngo]
    IN /\ cases' = IF cid = 0 THEN Append(cases, obj) ELSE [cases EXCEPT ![cid] = obj]
       /\ IF save_model_transitions(reports[rid].status)
          THEN /\ reports' = [reports EXCEPT ![rid].status = "in_progress",
                                             ![rid].updated_at = now + 1]
               /\ now' = now + 1
          ELSE UNCHANGED <<reports, now>>

\* POST to the Case add or change view of the administrative console
CaseAdmin_post(cid, form) ==
    LET errs == CaseForm_errors(cid, form)
    IN /\ IF is_valid(errs)
          THEN /\ CaseAdmin_save_model(cid, form)
               /\ response' = Resp("admin_case", 302, {},
                                   IF cid = 0 THEN Len(cases) + 1 ELSE cid)
          ELSE /\ response' = Resp("admin_case", 200, errs, cid)
               /\ UNCHANGED <<reports, cases, now>>
       /\ UNCHANGED <<users, profiles, evidences, session, upload, inflight>>

----------------------------------------------------------------------------
(* admin.py: EvidenceAdmin, EvidenceInline.  Evidence rows are referenced  *)
(* by no other record; deleting one removes it from the sequence.          *)

\* a file input left empty
NoFile == [size |-> 0, content_type |-> ""]

\* validation of the Evidence add (eid = 0) or change form: report is
\* required, file is required unless the row already has one
EvidenceForm_errors(eid, form) ==
    (IF form.report \notin 1..Len(reports) THEN {<<"report", REQUIRED>>} ELSE {})
    \cup (IF eid = 0 /\ form.file = NoFile THEN {<<"file", REQUIRED>>} ELSE {})

\* POST to the Evidence add or change view: report, file and caption are
\* editable, an empty file input keeps the stored file
EvidenceAdmin_post(eid, form) ==
    LET errs == EvidenceForm_errors(eid, form)
        obj == [report |-> form.report,
                file |-> IF form.file = NoFile THEN evidences[eid].file ELSE form.file,
                caption |-> form.caption]
    IN /\ IF is_valid(errs)
          THEN /\ evidences' = IF eid = 0 THEN Append(evidences, obj)
                               ELSE [evidences EXCEPT ![eid] = obj]
               /\ response' = Resp("admin_evidence", 302, {},
                                   IF eid = 0 THEN Len(evidences) + 1 ELSE eid)
          ELSE /\ response' = Resp("admin_evidence", 200, errs, eid)
               /\ UNCHANGED evidences
       /\ UNCHANGED <<users, profiles, reports, cases, session, upload, now, inflight>>

\* POST to the Evidence delete view
EvidenceAdmin_delete(eid) ==
    /\ evidences' = SubSeq(evidences, 1, eid - 1) \o SubSeq(evidences, eid + 1, Len(evidences))
    /\ response' = Resp("admin_evidence_delete", 302, {}, eid)
    /\ UNCHANGED <<users, profiles, reports, cases, session, upload, now, inflight>>

\* the Report change form submitted with the blank row of EvidenceInline
\* (extra = 1) filled in: the report is saved, then the new Evidence row
ReportAdmin_change_inline(rid, status, file, caption) ==
    /\ reports' = [reports EXCEPT ![rid].status = status, ![rid].updated_at = now + 1]
    /\ now' = now + 1
    /\ evidences' = Append(evidences, [report |-> rid, file |-> file, caption |-> caption])
    /\ response' = Resp("admin_report_change", 302, {}, rid)
    /\ UNCHANGED <<users, profiles, cases, session, upload, inflight>>

----------------------------------------------------------------------------
(* Requests *)

BasePost ==
    [role |-> "user", username |-> "amy", password |-> "p1", first_name |-> "Ada",
     last_name |-> "Obi", email |-> "a@x.com", phone_number |-> "0801",
     wants_contact |-> "", enrolment_number |-> "SCN1",
     organization_name |-> "Org", rc_number |-> "RC1", is_verified |-> ""]

Blanked(post, S) == [f \in DOMAIN post |-> IF f \in S THEN "" ELSE post[f]]

RoleFields == {"organization_name", "rc_number", "enrolment_number", "email", "phone_number"}

\* which fields a request leaves blank: none, any one, or all role fields
BlankSets ==
    {{}} \cup {{f} : f \in RoleFields \cup {"username", "first_name"}} \cup {RoleFields}

\* registration requests of the profile specification; the k-th visitor
\* uses its own username and email.  is_verified is submitted to the lawyer
\* and NGO forms, wants_contact to the reporter form
RegPosts ==
    {Blanked([BasePost EXCEPT !.role = r, !.username = c[1], !.email = c[2],
                              !.is_verified = v], S) :
        r \in {"lawyer", "ngo", "admin"},
        c \in {<<"amy", "a@x.com">>, <<"bob", "b@x.com">>},
        v \in {"", "on"}, S \in BlankSets}
    \cup
    {Blanked([BasePost EXCEPT !.username = c[1], !.email = c[2],
                              !.wants_contact = w], S) :
        c \in {<<"amy", "a@x.com">>, <<"bob", "b@x.com">>},
        w \in {"", "on"}, S \in BlankSets}

AdminDetails ==
    {Blanked([organization_name |-> "Org", rc_number |-> "RC1", phone_number |-> "0801",
              email |-> "c@x.com", enrolment_number |-> "SCN1"], S) :
        S \in {{}} \cup {{f} : f \in RoleFields} \cup {RoleFields}}

AdminProfileForms ==
    {[role |-> r, is_verified |-> v, organization_name |-> d.organization_name,
      rc_number |-> d.rc_number, phone_number |-> d.phone_number, email |-> d.email,
      enrolment_number |-> d.enrolment_number] :
        r \in ROLE_CHOICES, v \in BOOLEAN, d \in AdminDetails}

\* registration requests of the login specification: valid reporter forms
\* over a few usernames, emails and passwords
LoginRegPosts ==
    {[BasePost EXCEPT !.username = u, !.email = e, !.password = pw] :
        u \in {"amy", "bob", "a@x.com"}, e \in {"a@x.com", "a@X.com", "b@x.com"},
        pw \in {"p1", "p2"}}

Identifiers == {"", "amy", "bob", "a@x.com", "a@X.com", "b@x.com"}
Passwords == {"", "p1", "p2"}

----------------------------------------------------------------------------
(* Spec: registration and the administration of profiles *)

NoResponse == Resp("", 0, {}, 0)

Init ==
    /\ users = <<>>
    /\ profiles = <<>>
    /\ reports = <<>>
    /\ evidences = <<>>
    /\ cases = <<>>
    /\ session = 0
    /\ response = NoResponse
    /\ upload = <<>>
    /\ now = 0
    /\ inflight = <<>>

Register == \E post \in RegPosts : Len(users) < MaxAccounts /\ register(post)
AdminProfileChange ==
    \E pid \in 1..Len(profiles), form \in AdminProfileForms : UserProfileAdmin_change(pid, form)
AdminProfileListEdit ==
    \E pid \in 1..Len(profiles), v \in BOOLEAN : UserProfileAdmin_changelist(pid, v)

Next == Register \/ AdminProfileChange \/ AdminProfileListEdit

Spec == Init /\ [][Next]_vars

----------------------------------------------------------------------------
(* SpecRegister: the public account pages, profile registration forms *)

Login == \E id \in Identifiers, pw \in Passwords : login_view(id, pw)
LogoutR == logout_view

NextRegister == Register \/ Login \/ LogoutR

SpecRegister == Init /\ [][NextRegister]_vars

----------------------------------------------------------------------------
(* SpecLogin: the public account pages, accounts of varied credentials *)

RegisterL == \E post \in LoginRegPosts : Len(users) < MaxUsers /\ register(post)
LogoutL == logout_view

NextLogin == RegisterL \/ Login \/ LogoutL

SpecLogin == Init /\ [][NextLogin]_vars

----------------------------------------------------------------------------
(* Claims on accounts and profiles *)

\* C1: no profile has role 'user' together with is_verified = True, whatever
\* registrations and administrator edits have happened; the attempt to save
\* one is rejected by validation.
C1_UserRoleNeverVerified ==
    \A i \in 1..Len(profiles) : ~(profiles[i].role = "user" /\ profiles[i].is_verified)

\* the administrator ticked is_verified on a reporter's row and was refused
C1_Witness ==
    /\ response.view = "admin_userprofile_changelist"
    /\ response.status = 200
    /\ <<NONFIELD, "Only NGOs and Lawyers can be verified.">> \in response.errors
    /\ profiles[response.obj].role = "user"
    /\ ~profiles[response.obj].is_verified

NonAdminViews == {"register", "login", "logout", "report_anonymous", "report_create"}

\* C2: is_verified is mutated only by an administrator: a request to a
\* non-administrator view leaves the flag of every existing profile as it was
\* and a profile it creates has is_verified = False.
C2_VerifiedOnlyByAdmin ==
    [][response'.view \in NonAdminViews =>
         \A i \in 1..Len(profiles') :
            IF i <= Len(profiles)
            THEN profiles'[i].is_verified = profiles[i].is_verified
            ELSE ~profiles'[i].is_verified]_vars

\* C3: every ngo profile has an organization name and an RC number, every
\* lawyer profile has an enrolment number, an email and a phone number.
C3_RoleFieldsPresent ==
    \A i \in 1..Len(profiles) :
        /\ profiles[i].role = "ngo" =>
              profiles[i].organization_name # "" /\ profiles[i].rc_number # ""
        /\ profiles[i].role = "lawyer" =>
              /\ profiles[i].enrolment_number # ""
              /\ profiles[i].email # ""
              /\ profiles[i].phone_number # ""

\* an administrator's edit that would leave an NGO without RC number was refused
C3_Witness ==
    /\ response.view = "admin_userprofile_change"
    /\ response.status = 200
    /\ <<NONFIELD, "NGOs must provide an RC number.">> \in response.errors
    /\ \E i \in 1..Len(profiles) : profiles[i].role = "ngo"

MissingRoleField(post) ==
    \/ post.role = "ngo" /\ (post.organization_name = "" \/ post.rc_number = "")
    \/ post.role = "lawyer"
         /\ (post.enrolment_number = "" \/ post.email = "" \/ post.phone_number = "")

IncompletePosts == {post \in RegPosts : MissingRoleField(post)}

\* C4: a registration request that lacks a field required for its role is
\* answered by the form re-rendered with errors; no account, no profile and no
\* login result from it.
C4_IncompleteRegistrationRejected ==
    [][response'.view = "register" =>
          \A post \in IncompletePosts :
              register(post) =>
                  /\ UNCHANGED <<users, profiles, session>>
                  /\ response'.status = 200
                  /\ response'.errors # {}]_vars

\* an NGO registration without organization name came back with the error
C4_Witness ==
    /\ response.view = "register"
    /\ response.status = 200
    /\ <<"organization_name", REQUIRED>> \in response.errors
    /\ users = <<>>
    /\ session = 0

\* C10: login succeeds with either username or matching email: when some
\* account has the password and the identifier as username or email, the view
\* starts a session for such an account; when none has, the form is invalid
\* with 'Invalid username/email or password.' and no session is started.
C10_LoginByUsernameOrEmail ==
    [][\A id \in Identifiers \ {""}, pw \in Passwords \ {""} :
          login_view(id, pw) =>
              LET match == {i \in 1..Len(users) :
                              /\ users[i].password = pw
                              /\ users[i].username = id \/ users[i].email = id}
              IN IF match # {}
                 THEN session' \in match /\ response'.status = 302
                 ELSE /\ session' = session
                      /\ response'.status = 200
                      /\ <<NONFIELD, "Invalid username/email or password.">>
                            \in response'.errors]_vars

----------------------------------------------------------------------------
(* SpecUpload: the two report forms applied to an upload *)

MB == 1024 * 1024

ContentTypes ==
    {"image/png", "video/mp4", "audio/mpeg",
     "application/pdf", "application/msword",
     "application/vnd.openxmlformats-officedocument.wordprocessingml.document",
     "application/vnd.openxmlformats-officedocument.spreadsheetml.sheet",
     "application/vnd.ms-excel", "text/plain",
     "", "text/html", "application/zip", "Image/png", "ximage/png", "image",
     "application/pdfx"}

Files ==
    {[size |-> 1, content_type |-> c] : c \in ContentTypes}
    \cup {[size |-> z, content_type |-> c] :
            z \in {25 * MB + 1, 50 * MB, 100 * MB, 100 * MB + 1},
            c \in {"image/png", "text/html"}}

Uploads == UNION {[1..n -> Files] : n \in 0..MaxFiles}

ValidReportPost ==
    [title |-> "Arrest", description |-> "what happened", category |-> "HR",
     incident_location |-> "Lagos"]

ReporterAmy == [username |-> "amy", email |-> "a@x.com", password |-> "p1"]
ProfileAmy == [NewProfile EXCEPT !.user = 1, !.email = "a@x.com", !.phone_number = "0801"]

\* amy has registered as a reporter and is logged in, or has logged out;
\* the visitor holds the files of the report to submit
InitUpload ==
    /\ users = <<ReporterAmy>>
    /\ profiles = <<ProfileAmy>>
    /\ reports = <<>>
    /\ evidences = <<>>
    /\ cases = <<>>
    /\ \/ session = 1 /\ response = Resp("register", 302, {}, 1)
       \/ session = 0 /\ response = Resp("logout", 302, {}, 0)
    /\ upload \in Uploads
    /\ now = 0
    /\ inflight = <<>>

AnonymousReportU == Len(reports) < MaxReports /\ anonymous_report(ValidReportPost, upload)
ReportCreateU == Len(reports) < MaxReports /\ report_create(ValidReportPost, upload)

NextUpload == AnonymousReportU \/ ReportCreateU

SpecUpload == InitUpload /\ [][NextUpload]_vars

----------------------------------------------------------------------------
(* SpecCases: reports and their escalation to cases by the administrator *)

LawyerLex == [username |-> "lex", email |-> "l@x.com", password |-> "p1"]
NgoHope == [username |-> "hope", email |-> "h@x.com", password |-> "p1"]
ProfileLex ==
    [NewProfile EXCEPT !.user = 2, !.role = "lawyer", !.email = "l@x.com",
                       !.phone_number = "0802", !.enrolment_number = "SCN1"]
ProfileHope ==
    [NewProfile EXCEPT !.user = 3, !.role = "ngo", !.email = "h@x.com",
                       !.phone_number = "0803", !.organization_name = "Org",
                       !.rc_number = "RC1"]

\* a reporter, a lawyer and an NGO have registered, none is verified yet
InitCases ==
    /\ users = <<ReporterAmy, LawyerLex, NgoHope>>
    /\ profiles = <<ProfileAmy, ProfileLex, ProfileHope>>
    /\ reports = <<>>
    /\ evidences = <<>>
    /\ cases = <<>>
    /\ session = 0
    /\ response = Resp("logout", 302, {}, 0)
    /\ upload = <<>>
    /\ now = 0
    /\ inflight = <<>>

ReportPosts ==
    {ValidReportPost, [ValidReportPost EXCEPT !.category = "ZZ"]}

\* the lawyer field is posted blank or naming the lawyer profile, the NGO
\* field blank or naming the NGO profile; one form names the NGO profile as
\* lawyer
CaseForms ==
    [report : 0..MaxReports, assigned_lawyer : {0, 2}, assigned_ngo : {0, 3}]
    \cup {[report |-> 1, assigned_lawyer |-> 3, assigned_ngo |-> 0]}

\* the clock is bounded: a request whose save would read a later time than
\* MaxTime is left out
AnonymousReportC ==
    \E post \in ReportPosts :
        Len(reports) < MaxReports /\ anonymous_report(post, <<>>) /\ now' <= MaxTime
ReportAdminChange ==
    \E rid \in 1..Len(reports), status \in STATUS_CHOICES :
        ReportAdmin_change(rid, status) /\ now' <= MaxTime
CaseAdminAdd == \E form \in CaseForms : CaseAdmin_post(0, form) /\ now' <= MaxTime
CaseAdminChange ==
    \E cid \in 1..Len(cases), form \in CaseForms :
        CaseAdmin_post(cid, form) /\ now' <= MaxTime

NextCases ==
    \/ AnonymousReportC
    \/ ReportAdminChange
    \/ CaseAdminAdd
    \/ CaseAdminChange
    \/ AdminProfileListEdit

SpecCases == InitCases /\ [][NextCases]_vars

----------------------------------------------------------------------------
(* Claims on cases *)

CaseSaved(r) == r.view = "admin_case" /\ r.status = 302

\* C5: when the administrator saves a Case (add or change), the Case's
\* Report goes from 'pending' to 'in_progress' and keeps any other status;
\* apart from the status the save changes only updated_at, which is
\* refreshed when the status was pending, and a report that was not pending
\* is left exactly as it was.
C5_CaseSaveMovesPendingReport ==
    [][CaseSaved(response') =>
          LET rid == cases'[response'.obj].report
          IN /\ reports'[rid].status =
                    IF reports[rid].status = "pending" THEN "in_progress"
                    ELSE reports[rid].status
             /\ \A f \in DOMAIN reports[rid] \ {"status", "updated_at"} :
                    reports'[rid][f] = reports[rid][f]
             /\ reports[rid].status # "pending" => reports'[rid] = reports[rid]]_vars

\* C5 as stated: no field of the Report other than status is changed
C5_Original ==
    [][CaseSaved(response') =>
          LET rid == cases'[response'.obj].report
          IN /\ reports'[rid].status =
                    IF reports[rid].status = "pending" THEN "in_progress"
                    ELSE reports[rid].status
             /\ \A f \in DOMAIN reports[rid] \ {"status"} :
                    reports'[rid][f] = reports[rid][f]]_vars

\* a Case was just saved on a report the administrator had resolved before
C5_Witness ==
    /\ CaseSaved(response)
    /\ reports[cases[response.obj].report].status = "resolved"

\* C6: at the moment a Case is saved, its assigned_lawyer is blank or a
\* profile with role 'lawyer' and is_verified = True, and its assigned_ngo is
\* blank or a profile with role 'ngo' and is_verified = True.
C6_OnlyVerifiedAssignable ==
    CaseSaved(response) =>
        LET c == cases[response.obj]
        IN /\ c.assigned_lawyer # 0 =>
                /\ profiles[c.assigned_lawyer].role = "lawyer"
                /\ profiles[c.assigned_lawyer].is_verified
           /\ c.assigned_ngo # 0 =>
                /\ profiles[c.assigned_ngo].role = "ngo"
                /\ profiles[c.assigned_ngo].is_verified

\* the form naming an unverified lawyer was refused while a verified NGO
\* was selectable
C6_Witness ==
    /\ response.view = "admin_case"
    /\ response.status = 200
    /\ response.errors = {<<"assigned_lawyer", "Select a valid choice.">>}
    /\ ~profiles[2].is_verified
    /\ profiles[3].is_verified

----------------------------------------------------------------------------
(* Claims on evidence uploads *)

LIMIT == 100 * 1024 * 1024

\* the report form was bound and validated for the last request: the
\* anonymous route always, the authenticated route for a logged-in reporter
FormProcessed(r, s) ==
    \/ r.view = "report_anonymous"
    \/ /\ r.view = "report_create"
       /\ \E i \in userprofile(s) : profiles[i].role = "user"

Oversize == \E i \in 1..Len(upload) : upload[i].size > LIMIT

\* the content types the interface admits
AdmittedType(ctype) ==
    \/ StartsWith(ctype, "image/")
    \/ StartsWith(ctype, "video/")
    \/ StartsWith(ctype, "audio/")
    \/ ctype = "application/pdf"
    \/ ctype = "application/msword"
    \/ ctype = "application/vnd.openxmlformats-officedocument.wordprocessingml.document"
    \/ ctype = "application/vnd.ms-excel"
    \/ ctype = "application/vnd.openxmlformats-officedocument.spreadsheetml.sheet"
    \/ ctype = "text/plain"

AllAdmitted == \A i \in 1..Len(upload) : AdmittedType(upload[i].content_type)

\* C7: a submission with a file over 100 MB is invalid on both report forms:
\* the response is success=false with status 400 and neither a Report nor an
\* Evidence row is created; files of at most the limit (of admitted types)
\* are accepted, one Report and one Evidence row per file being created.
C7_OversizeRejected ==
    [][response'.view \in {"report_anonymous", "report_create"} =>
          /\ Oversize =>
                /\ UNCHANGED <<reports, evidences>>
                /\ FormProcessed(response', session) =>
                        response'.status = 400 /\ response'.success = "false"
          /\ (~Oversize /\ AllAdmitted /\ FormProcessed(response', session)) =>
                /\ response'.status = 200 /\ response'.success = "true"
                /\ Len(reports') = Len(reports) + 1
                /\ Len(evidences') = Len(evidences) + Len(upload)]_vars

\* the reporter's upload held a file of exactly the limit next to a file one
\* byte over it, and nothing was stored
C7_Witness ==
    /\ response.view = "report_create"
    /\ response.status = 400
    /\ \E i, j \in 1..Len(upload) : upload[i].size = LIMIT /\ upload[j].size = LIMIT + 1
    /\ reports = <<>>
    /\ evidences = <<>>

\* C8 as stated: the two forms have different limits (25MB and 100MB), so a
\* file between the two is accepted by one form and rejected by the other
C8_Original ==
    (/\ FormProcessed(response, session)
     /\ Len(upload) = 1
     /\ upload[1].size = 50 * MB
     /\ AdmittedType(upload[1].content_type)) =>
        LET other == IF response.view = "report_anonymous"
                     THEN AuthenticatedReportForm_errors(ValidReportPost, upload)
                     ELSE AnonymousReportForm_errors(ValidReportPost, upload)
        IN (response.status = 200) # (other = {})

\* C8: the per-file size limit is 100MB on both report forms: a submission
\* of files of admitted types is rejected by either form exactly when one of
\* the files is larger than 100MB, so a 50MB file is accepted by both.
C8_SameLimitBothForms ==
    (FormProcessed(response, session) /\ AllAdmitted) =>
        (response.status = 400 <=> Oversize)

\* the anonymous form accepted a 50MB file
C8_Witness ==
    /\ response.view = "report_anonymous"
    /\ response.status = 200
    /\ \E i \in 1..Len(upload) : upload[i].size = 50 * MB
    /\ Len(evidences) = Len(upload)

----------------------------------------------------------------------------
(* SpecAccess: logged-in accounts of the three roles, the two report       *)
(* routes and the dashboards                                               *)

DashLogins == {<<"amy", "p1">>, <<"lex", "p1">>, <<"hope", "p1">>, <<"amy", "p2">>}

\* report requests that also carry a status value, which is no field of the
\* report forms
DashPosts ==
    {[title |-> "Arrest", description |-> "what happened", category |-> "HR",
      incident_location |-> "Lagos", status |-> "resolved"],
     [title |-> "", description |-> "what happened", category |-> "HR",
      incident_location |-> "Lagos", status |-> "resolved"]}

DashUpload == <<[size |-> 1, content_type |-> "image/png"]>>

LoginD == \E c \in DashLogins : login_view(c[1], c[2])
LogoutD == logout_view
ReportCreateD ==
    \E post \in DashPosts : Len(reports) < MaxReports /\ report_create(post, DashUpload)
AnonymousReportD ==
    \E post \in DashPosts : Len(reports) < MaxReports /\ anonymous_report(post, DashUpload)
AssignedCasesDashboard == assigned_cases_dashboard
ReporterDashboard == reporter_dashboard

NextAccess ==
    \/ LoginD
    \/ LogoutD
    \/ ReportCreateD
    \/ AnonymousReportD
    \/ AssignedCasesDashboard
    \/ ReporterDashboard

SpecAccess == InitCases /\ [][NextAccess]_vars

----------------------------------------------------------------------------
(* SpecDash: the dashboards over reports and assigned cases *)

\* the administrator has verified the lawyer and the NGO
InitDash ==
    /\ users = <<ReporterAmy, LawyerLex, NgoHope>>
    /\ profiles = <<ProfileAmy, [ProfileLex EXCEPT !.is_verified = TRUE],
                    [ProfileHope EXCEPT !.is_verified = TRUE]>>
    /\ reports = <<>>
    /\ evidences = <<>>
    /\ cases = <<>>
    /\ session = 0
    /\ response = Resp("logout", 302, {}, 0)
    /\ upload = <<>>
    /\ now = 0
    /\ inflight = <<>>

LoginV == \E c \in {<<"amy", "p1">>, <<"lex", "p1">>, <<"hope", "p1">>} : login_view(c[1], c[2])
ReportCreateV == Len(reports) < MaxReports /\ report_create(ValidReportPost, <<>>)
AnonymousReportV == Len(reports) < MaxReports /\ anonymous_report(ValidReportPost, <<>>)
AssignedCasesDashboardV == assigned_cases_dashboard
ReporterDashboardV == reporter_dashboard
CaseAdminAddV ==
    \E form \in [report : 1..MaxReports, assigned_lawyer : {0, 2}, assigned_ngo : {0, 3}] :
        CaseAdmin_post(0, form)

NextDash ==
    \/ LoginV
    \/ ReportCreateV
    \/ AnonymousReportV
    \/ AssignedCasesDashboardV
    \/ ReporterDashboardV
    \/ CaseAdminAddV

SpecDash == InitDash /\ [][NextDash]_vars

----------------------------------------------------------------------------
(* Claims on access and ownership *)

RestrictedViews == {"report_create", "assigned_cases_dashboard", "reporter_dashboard"}

\* the roles a restricted view serves
AllowedRoles(view) ==
    IF view = "assigned_cases_dashboard" THEN {"lawyer", "ngo"} ELSE {"user"}

\* C11: a request to report_create, assigned_cases_dashboard or
\* reporter_dashboard by a logged-in account whose profile has a role the view
\* does not serve is answered 403 and changes no stored record and no
\* session; a request by nobody logged in is answered by a redirect and
\* changes nothing; an account of a served role is not refused.
C11_WrongRoleForbidden ==
    [][response'.view \in RestrictedViews =>
          LET own == userprofile(session)
              role == profiles[CHOOSE i \in own : TRUE].role
          IN /\ session = 0 =>
                    /\ response'.status = 302
                    /\ UNCHANGED <<users, profiles, reports, evidences, cases, session>>
             /\ (session # 0 /\ own # {} /\ role \notin AllowedRoles(response'.view)) =>
                    /\ response'.status = 403
                    /\ UNCHANGED <<users, profiles, reports, evidences, cases, session>>
             /\ (session # 0 /\ own # {} /\ role \in AllowedRoles(response'.view)) =>
                    response'.status \in {200, 400}]_vars

\* the NGO posted a report and was refused, after a reporter's report was
\* stored
C11_Witness ==
    /\ response.view = "report_create"
    /\ response.status = 403
    /\ session = 3
    /\ Len(reports) = 1
    /\ Len(evidences) = 1

\* C12: a step that stores a Report stores exactly one, with status
\* 'pending' whatever the request carried; through the anonymous route its
\* reporter is null, also for a logged-in requester, and through the
\* authenticated route its reporter is the requester's own profile.
C12_NewReportOwnerAndStatus ==
    [][Len(reports') # Len(reports) =>
          LET r == reports'[Len(reports')]
          IN /\ Len(reports') = Len(reports) + 1
             /\ r.status = "pending"
             /\ response'.view \in {"report_anonymous", "report_create"}
             /\ response'.view = "report_anonymous" => r.reporter = 0
             /\ response'.view = "report_create" =>
                    /\ session # 0
                    /\ r.reporter \in userprofile(session)]_vars

\* the logged-in reporter used the anonymous route after the authenticated one
C12_Witness ==
    /\ response.view = "report_anonymous"
    /\ response.status = 200
    /\ session = 1
    /\ Len(reports) = 2
    /\ reports[1].reporter = 1
    /\ reports[2].reporter = 0
    /\ reports[2].status = "pending"

----------------------------------------------------------------------------
(* SpecEvidence: report submissions with files and the administration of   *)
(* evidence                                                                *)

FilePng == [size |-> 1, content_type |-> "image/png"]
FilePdf == [size |-> 2, content_type |-> "application/pdf"]

EvidenceUploads == {<<>>, <<FilePng>>}

\* the administrator's Evidence forms: nothing filled in, a caption and the
\* first Report chosen, or a new file for the first Report
EvidenceForms ==
    {[report |-> 0, file |-> NoFile, caption |-> ""],
     [report |-> 1, file |-> NoFile, caption |-> "note"],
     [report |-> 1, file |-> FilePdf, caption |-> ""]}

\* amy has registered as a reporter and is logged in, or has logged out
InitEvidence ==
    /\ users = <<ReporterAmy>>
    /\ profiles = <<ProfileAmy>>
    /\ reports = <<>>
    /\ evidences = <<>>
    /\ cases = <<>>
    /\ \/ session = 1 /\ response = Resp("register", 302, {}, 1)
       \/ session = 0 /\ response = Resp("logout", 302, {}, 0)
    /\ upload = <<>>
    /\ now = 0
    /\ inflight = <<>>

\* the evidence table is bounded: a request that would store more than
\* MaxFiles rows in all is left out, as is one that reads the clock past
\* MaxTime
AnonymousReportE ==
    \E files \in EvidenceUploads :
        /\ Len(reports) < MaxReports
        /\ anonymous_report(ValidReportPost, files)
        /\ Len(evidences') <= MaxFiles /\ now' <= MaxTime
ReportCreateE ==
    \E files \in EvidenceUploads :
        /\ Len(reports) < MaxReports
        /\ report_create(ValidReportPost, files)
        /\ Len(evidences') <= MaxFiles /\ now' <= MaxTime
EvidenceAdminAdd ==
    \E form \in EvidenceForms : EvidenceAdmin_post(0, form) /\ Len(evidences') <= MaxFiles
EvidenceAdminChange ==
    \E eid \in 1..Len(evidences), form \in EvidenceForms : EvidenceAdmin_post(eid, form)
EvidenceAdminDelete == \E eid \in 1..Len(evidences) : EvidenceAdmin_delete(eid)
ReportAdminInline ==
    \E rid \in 1..Len(reports) :
        /\ ReportAdmin_change_inline(rid, reports[rid].status, FilePdf, "")
        /\ Len(evidences') <= MaxFiles /\ now' <= MaxTime

NextEvidence ==
    \/ AnonymousReportE
    \/ ReportCreateE
    \/ EvidenceAdminAdd
    \/ EvidenceAdminChange
    \/ EvidenceAdminDelete
    \/ ReportAdminInline

SpecEvidence == InitEvidence /\ [][NextEvidence]_vars

----------------------------------------------------------------------------
(* Claims on evidence records *)

AdminViews ==
    {"admin_userprofile_change", "admin_userprofile_changelist", "admin_report_change",
     "admin_case", "admin_evidence", "admin_evidence_delete"}

\* every Evidence row is kept as it was, and every added row belongs to a
\* Report stored by the same step
EvidenceKeptAndAddedWithReport ==
    /\ Len(evidences') >= Len(evidences)
    /\ \A i \in 1..Len(evidences) : evidences'[i] = evidences[i]
    /\ \A i \in (Len(evidences) + 1)..Len(evidences') :
            /\ evidences'[i].report > Len(reports)
            /\ evidences'[i].report <= Len(reports')

\* C13 as stated: apart from deletion, no operation, the administrative
\* console included, changes an Evidence row or adds one to an earlier Report
C13_Original ==
    [][response'.view # "admin_evidence_delete" => EvidenceKeptAndAddedWithReport]_vars

\* C13: no request outside the administrative console changes or removes an
\* Evidence row, and a report submission adds rows only to the Report it
\* stores, one per uploaded file; the console's Evidence forms and the
\* Report form's inline can add rows to an earlier Report and edit the file,
\* caption and Report of a row.
C13_EvidenceFixedOutsideAdmin ==
    [][response'.view \notin AdminViews =>
          /\ EvidenceKeptAndAddedWithReport
          /\ Len(reports') > Len(reports) =>
                Len(evidences') = Len(evidences) + Len(upload')]_vars

\* the reporter's second submission stored its file next to the evidence
\* of the first report
C13_Witness ==
    /\ response.view = "report_create"
    /\ response.status = 200
    /\ Len(evidences) = 2
    /\ evidences[1].report = 1
    /\ evidences[2].report = 2

----------------------------------------------------------------------------
(* Claims on the relation of cases, reports and profiles *)

\* C14: every Case refers to an existing Report and no two Cases refer to
\* the same Report; the add form naming a Report that already has a Case is
\* invalid with 'Case with this Report already exists.', an invalid Case form
\* leaves cases and reports as they were, and a Case is only ever added for
\* a Report that had none.
C14_CaseOneToOne ==
    /\ [](/\ \A c \in 1..Len(cases) : cases[c].report \in 1..Len(reports)
          /\ \A c, d \in 1..Len(cases) : cases[c].report = cases[d].report => c = d
          /\ \A form \in CaseForms :
                (\E c \in 1..Len(cases) : cases[c].report = form.report) =>
                    <<"report", "Case with this Report already exists.">>
                        \in CaseForm_errors(0, form))
    /\ [][response'.view = "admin_case" =>
            /\ response'.errors # {} =>
                    response'.status = 200 /\ UNCHANGED <<cases, reports>>
            /\ Len(cases') # Len(cases) =>
                    /\ Len(cases') = Len(cases) + 1
                    /\ SubSeq(cases', 1, Len(cases)) = cases
                    /\ \A c \in 1..Len(cases) :
                            cases[c].report # cases'[Len(cases')].report]_vars

\* a second Case for the first Report was refused while another Report had
\* no Case
C14_Witness ==
    /\ response.view = "admin_case"
    /\ response.status = 200
    /\ response.obj = 0
    /\ response.errors = {<<"report", "Case with this Report already exists.">>}
    /\ Len(cases) = 1
    /\ Len(reports) = 2

\* C19 as stated: a Report that has a Case is never 'pending'
C19_Original ==
    \A c \in 1..Len(cases) : reports[cases[c].report].status # "pending"

\* C19: right after the administrator saves a Case (add or change) its
\* Report is not 'pending'; the Report admin can afterwards set the status
\* of a Report that has a Case to any value, 'pending' included, and it
\* stays so until the Case is saved again.
C19_ReportNotPendingAfterCaseSave ==
    [][CaseSaved(response') =>
          reports'[cases'[response'.obj].report].status # "pending"]_vars

\* the Case of a pending report was just saved and the report moved on
C19_Witness ==
    /\ CaseSaved(response)
    /\ reports[cases[response.obj].report].status = "in_progress"
    /\ reports[cases[response.obj].report].updated_at = now
    /\ reports[cases[response.obj].report].created_at < now

\* C20: in every state the assigned_lawyer of every Case is null or a
\* profile with role 'lawyer' and is_verified = True, and the assigned_ngo is
\* null or a profile with role 'ngo' and is_verified = True, also after the
\* administrator has un-verified a profile.
C20_AssignedAlwaysVerified ==
    \A c \in 1..Len(cases) :
        /\ cases[c].assigned_lawyer # 0 =>
                /\ profiles[cases[c].assigned_lawyer].role = "lawyer"
                /\ profiles[cases[c].assigned_lawyer].is_verified
        /\ cases[c].assigned_ngo # 0 =>
                /\ profiles[cases[c].assigned_ngo].role = "ngo"
                /\ profiles[cases[c].assigned_ngo].is_verified

----------------------------------------------------------------------------
(* SpecSignup: registrations of every role, one visitor after another *)

\* complete forms and forms without phone number, for the three roles and
\* for a role value that is none of them
SignupPosts ==
    {Blanked([BasePost EXCEPT !.role = r, !.username = c[1], !.email = c[2]], S) :
        r \in ROLE_CHOICES \cup {"admin"},
        c \in {<<"amy", "a@x.com">>, <<"bob", "b@x.com">>},
        S \in {{}, {"phone_number"}}}

RegisterS == \E post \in SignupPosts : Len(users) < MaxUsers /\ register(post)
LoginS == \E id \in {"amy", "bob"}, pw \in {"p1", "p2"} : login_view(id, pw)
LogoutS == logout_view

NextSignup == RegisterS \/ LoginS \/ LogoutS

SpecSignup == Init /\ [][NextSignup]_vars

----------------------------------------------------------------------------
(* Claims on registration *)

ReporterPosts == {post \in RegPosts : post.role = "user"}

ContactFields == {"first_name", "last_name", "email", "phone_number"}

\* C15: a reporter registration with wants_contact ticked and one of first
\* name, last name, email or phone number blank is rejected; with
\* wants_contact not ticked these four fields may be blank and the
\* registration (username and password given, neither username nor email
\* taken) is accepted.
C15_ContactFieldsConditional ==
    [][response'.view = "register" =>
          \A post \in ReporterPosts :
              register(post) =>
                  IF BooleanField_to_python(post.wants_contact)
                  THEN (\E f \in ContactFields : post[f] = "") =>
                            /\ response'.status = 200
                            /\ UNCHANGED <<users, profiles, session>>
                  ELSE (/\ post.username # "" /\ post.password # ""
                        /\ \A i \in 1..Len(users) :
                              /\ users[i].username # post.username
                              /\ users[i].email # post.email) =>
                            /\ response'.status = 302
                            /\ Len(users') = Len(users) + 1]_vars

\* C16: a registration whose username or email equals that of an existing
\* account is rejected with the field error and creates nothing, so no two
\* accounts created by registration share a username or an email.
C16_UniqueUsernameAndEmail ==
    /\ [][response'.view = "register" =>
            \A post \in LoginRegPosts :
                (/\ register(post)
                 /\ \E i \in 1..Len(users) :
                        users[i].username = post.username \/ users[i].email = post.email) =>
                    /\ response'.status = 200
                    /\ \/ <<"username", "This username is already taken.">>
                                \in response'.errors
                       \/ <<"email", "This email address is already registered.">>
                                \in response'.errors
                    /\ UNCHANGED <<users, profiles>>]_vars
    /\ [](\A i, j \in 1..Len(users) :
            i # j => /\ users[i].username # users[j].username
                     /\ users[i].email # users[j].email)

\* C17: a valid registration stores one account and one profile linked to
\* it whose role is the role of the submitted form, starts a session for the
\* account and redirects; any other registration request, one whose role is
\* none of the three included, stores nothing and starts no session; every
\* account has exactly one profile.
C17_RegistrationCreatesAccountAndProfile ==
    /\ [][response'.view = "register" =>
            /\ response'.status = 302 =>
                    /\ users' = Append(users, users'[Len(users')])
                    /\ profiles' = Append(profiles, profiles'[Len(profiles')])
                    /\ profiles'[Len(profiles')].user = Len(users')
                    /\ session' = Len(users')
            /\ response'.status # 302 => UNCHANGED <<users, profiles, session>>
            /\ \A post \in SignupPosts :
                    register(post) =>
                        IF post.role \in ROLE_CHOICES /\ register_errors(post) = {}
                        THEN /\ response'.status = 302
                             /\ profiles'[Len(profiles')].role = post.role
                        ELSE response'.status = 200]_vars
    /\ [](\A u \in 1..Len(users) : Cardinality(userprofile(u)) = 1)

\* an NGO registered after a reporter and is logged in
C17_Witness ==
    /\ response.view = "register"
    /\ response.status = 302
    /\ session = 2
    /\ Len(users) = 2
    /\ Len(profiles) = 2
    /\ profiles[1].role = "user"
    /\ profiles[2].user = 2
    /\ profiles[2].role = "ngo"

----------------------------------------------------------------------------
(* views.py, forms.py: register as the steps of one request, between which *)
(* the steps of other requests run (no transaction spans the view)         *)

\* the view binds the form for the posted role and calls is_valid, whose
\* clean_username and clean_email read the stored accounts; an invalid form
\* is answered at once, a valid one goes on to save()
register_is_valid(post) ==
    LET errs == register_errors(post)
    IN /\ IF post.role \in ROLE_CHOICES /\ is_valid(errs)
          THEN /\ inflight' = Append(inflight, [post |-> post, pc |-> "create_user", uid |-> 0])
               /\ UNCHANGED response
          ELSE /\ response' = Resp("register", 200, errs, 0)
               /\ UNCHANGED inflight
       /\ UNCHANGED <<users, profiles, reports, evidences, cases, session, upload, now>>

\* save(): User.objects.create_user.  The username column of the account
\* table is unique, so inserting a taken username raises IntegrityError,
\* which leaves the view; the email column has no such constraint
register_create_user(k) ==
    LET post == inflight[k].post
    IN /\ inflight[k].pc = "create_user"
       /\ IF \E i \in 1..Len(users) : users[i].username = post.username
          THEN /\ inflight' = [inflight EXCEPT ![k].pc = "done"]
               /\ response' = Resp("register", 500, {<<NONFIELD, "IntegrityError">>}, 0)
               /\ UNCHANGED users
          ELSE /\ users' = Append(users, create_user(post))
               /\ inflight' = [inflight EXCEPT ![k].pc = "save_profile",
                                               ![k].uid = Len(users) + 1]
               /\ UNCHANGED response
       /\ UNCHANGED <<profiles, reports, evidences, cases, session, upload, now>>

\* save(): profile.save(); then the view logs the account in and redirects
register_save_profile(k) ==
    /\ inflight[k].pc = "save_profile"
    /\ profiles' = Append(profiles, register_save(inflight[k].post, inflight[k].uid))
    /\ session' = inflight[k].uid
    /\ response' = Resp("register", 302, {}, inflight[k].uid)
    /\ inflight' = [inflight EXCEPT ![k].pc = "done"]
    /\ UNCHANGED <<users, reports, evidences, cases, upload, now>>

----------------------------------------------------------------------------
(* SpecConcurrent: registration requests processed at the same time *)

\* complete reporter and lawyer forms over two usernames and two emails, and
\* a form without username
ConcurrentPosts ==
    {[BasePost EXCEPT !.role = r, !.username = u, !.email = e] :
        r \in {"user", "lawyer"}, u \in {"amy", "bob"}, e \in {"a@x.com", "b@x.com"}}
    \cup {[BasePost EXCEPT !.username = ""]}

RegisterArrives ==
    \E post \in ConcurrentPosts : Len(inflight) < MaxUsers /\ register_is_valid(post)
RegisterCreatesUser == \E k \in 1..Len(inflight) : register_create_user(k)
RegisterSavesProfile == \E k \in 1..Len(inflight) : register_save_profile(k)

NextConcurrent == RegisterArrives \/ RegisterCreatesUser \/ RegisterSavesProfile

SpecConcurrent == Init /\ [][NextConcurrent]_vars

\* C21: whatever the interleaving of registration requests, no two accounts
\* share a username or an email, and once every request has been answered
\* every account has a profile.
C21_ConcurrentRegistrationUnique ==
    /\ \A i, j \in 1..Len(users) :
            i # j => /\ users[i].username # users[j].username
                     /\ users[i].email # users[j].email
    /\ (\A k \in 1..Len(inflight) : inflight[k].pc = "done") =>
            \A u \in 1..Len(users) : userprofile(u) # {}

----------------------------------------------------------------------------
(* createsuperuser.py *)

\* create_superuser under the environment env: the script skips unless
\* CREATE_SUPERUSER is "1", username and password are set and the username is
\* free; otherwise User.objects.create_superuser inserts the account, and
\* no UserProfile
create_superuser(env) ==
    LET enabled == env.CREATE_SUPERUSER = "1"
        skip == \/ ~enabled
                \/ env.DJANGO_SUPERUSER_USERNAME = ""
                \/ env.DJANGO_SUPERUSER_PASSWORD = ""
                \/ \E i \in 1..Len(users) :
                        users[i].username = env.DJANGO_SUPERUSER_USERNAME
    IN /\ users' = IF skip THEN users
                   ELSE Append(users,
                               [username |-> env.DJANGO_SUPERUSER_USERNAME,
                                email |-> normalize_email(env.DJANGO_SUPERUSER_EMAIL),
                                password |-> env.DJANGO_SUPERUSER_PASSWORD])
       /\ response' = Resp("createsuperuser", 0, {}, IF skip THEN 0 ELSE Len(users) + 1)
       /\ UNCHANGED <<profiles, reports, evidences, cases, session, upload, now, inflight>>

----------------------------------------------------------------------------
(* SpecSuperuser: the deployment script, registration, login and the       *)
(* pages for logged-in accounts                                            *)

SuperuserEnvs ==
    {[CREATE_SUPERUSER |-> c, DJANGO_SUPERUSER_USERNAME |-> u,
      DJANGO_SUPERUSER_EMAIL |-> "r@x.com", DJANGO_SUPERUSER_PASSWORD |-> "p9"] :
        c \in {"", "1"}, u \in {"", "root", "amy"}}

SuperuserRegPosts ==
    {BasePost, [BasePost EXCEPT !.role = "lawyer", !.username = "bob", !.email = "b@x.com"]}

CreateSuperuser == \E env \in SuperuserEnvs : Len(users) < MaxUsers /\ create_superuser(env)
RegisterX == \E post \in SuperuserRegPosts : Len(users) < MaxUsers /\ register(post)
LoginX ==
    \E c \in {<<"root", "p9">>, <<"amy", "p1">>, <<"amy", "p9">>, <<"bob", "p1">>} :
        login_view(c[1], c[2])
LogoutX == logout_view
ReportCreateX == Len(reports) < MaxReports /\ report_create(ValidReportPost, <<>>)
AssignedCasesDashboardX == assigned_cases_dashboard
ReporterDashboardX == reporter_dashboard

NextSuperuser ==
    \/ CreateSuperuser
    \/ RegisterX
    \/ LoginX
    \/ LogoutX
    \/ ReportCreateX
    \/ AssignedCasesDashboardX
    \/ ReporterDashboardX

SpecSuperuser == Init /\ [][NextSuperuser]_vars

\* C22: every account, the superuser of the deployment script included, has
\* a UserProfile, so a request by a logged-in account to report_create,
\* assigned_cases_dashboard or reporter_dashboard is answered by the page, a
\* JSON payload or a forbidden response, never by a server error.
C22_EveryAccountHasProfile ==
    /\ [](\A u \in 1..Len(users) : userprofile(u) # {})
    /\ [][(response'.view \in RestrictedViews /\ session # 0) =>
            response'.status \in {200, 400, 403}]_vars

====
